---- MODULE Spec2Model ----
(***************************************************************************)
(* Model of compute-images/scripts/parse_gpt.py: read_header, the          *)
(* read_partitions generator and the way main drives them.  A buffer is a  *)
(* sequence of bytes (0..255); a Python str is a sequence of code points.  *)
(***************************************************************************)
EXTENDS Integers, Sequences, FiniteSets, TLC

(* ---------------------------- bounds ----------------------------------- *)
\* largest num_part_entries written into a header
MaxEntries == 3
\* number of 128-byte entries laid out in the generated partition array
MaxSlots == 3

(* ----------------------- Python primitives ----------------------------- *)
Min(a, b) == IF a < b THEN a ELSE b

\* s[a:] for a >= 0; the mutant does not clamp an offset beyond the end
PyTailUnclamped(s, a) == IF a > Len(s) THEN s ELSE SubSeq(s, a + 1, Len(s))
PyTail(s, a) == SubSeq(s, Min(a, Len(s)) + 1, Len(s))

\* s[:n] for n >= 0
PyHead(s, n) == SubSeq(s, 1, Min(n, Len(s)))

\* s[a:b] for 0 <= a <= b
PySlice(s, a, b) == SubSeq(s, Min(a, Len(s)) + 1, Min(b, Len(s)))

\* struct "<L" / "<Q": little-endian unsigned integer of the given bytes
RECURSIVE FromLE(_)
FromLE(b) == IF b = <<>> THEN 0 ELSE b[1] + 256 * FromLE(Tail(b))

HexDigits == <<"0", "1", "2", "3", "4", "5", "6", "7",
               "8", "9", "a", "b", "c", "d", "e", "f">>
Hex2(b) == HexDigits[(b \div 16) + 1] \o HexDigits[(b % 16) + 1]

\* str(uuid.UUID(bytes_le=b)): the first three fields are byte-swapped
UuidBytesLeStr(b) ==
    Hex2(b[4]) \o Hex2(b[3]) \o Hex2(b[2]) \o Hex2(b[1]) \o "-" \o
    Hex2(b[6]) \o Hex2(b[5]) \o "-" \o
    Hex2(b[8]) \o Hex2(b[7]) \o "-" \o
    Hex2(b[9]) \o Hex2(b[10]) \o "-" \o
    Hex2(b[11]) \o Hex2(b[12]) \o Hex2(b[13]) \o
    Hex2(b[14]) \o Hex2(b[15]) \o Hex2(b[16])

(* ------------------------- error values -------------------------------- *)
NoError == [type |-> "none", msg |-> ""]
GPTError(m) == [type |-> "GPTError", msg |-> m]
StructError == [type |-> "struct.error", msg |-> "unpack requires a buffer"]
UnicodeDecodeError == [type |-> "UnicodeDecodeError", msg |-> "utf-16"]

(* --------------------------- layouts ----------------------------------- *)
\* struct.calcsize(GPT_HDR_FMT)
HdrSize == 92
\* struct.calcsize(GPT_PART_FMT)
PartSize == 128

EfiPart == <<69, 70, 73, 32, 80, 65, 82, 84>>
Revision10 == <<0, 0, 1, 0>>

NoHeader ==
    [signature |-> <<>>, revision |-> <<>>, header_size |-> 0, crc32 |-> 0,
     current_lba |-> 0, backup_lba |-> 0, first_usable_lba |-> 0,
     last_usable_lba |-> 0, disk_guid |-> "",
     part_entry_start_lba |-> 0, num_part_entries |-> 0,
     part_entry_size |-> 0, crc32_part_array |-> 0]

\* GPTHeader._make(struct.unpack(GPT_HDR_FMT, data)) for Len(data) = 92
UnpackHeader(d) ==
    [signature |-> SubSeq(d, 1, 8),
     revision |-> SubSeq(d, 9, 12),
     header_size |-> FromLE(SubSeq(d, 13, 16)),
     crc32 |-> FromLE(SubSeq(d, 17, 20)),
     current_lba |-> FromLE(SubSeq(d, 25, 32)),
     backup_lba |-> FromLE(SubSeq(d, 33, 40)),
     first_usable_lba |-> FromLE(SubSeq(d, 41, 48)),
     last_usable_lba |-> FromLE(SubSeq(d, 49, 56)),
     disk_guid |-> SubSeq(d, 57, 72),
     part_entry_start_lba |-> FromLE(SubSeq(d, 73, 80)),
     num_part_entries |-> FromLE(SubSeq(d, 81, 84)),
     part_entry_size |-> FromLE(SubSeq(d, 85, 88)),
     crc32_part_array |-> FromLE(SubSeq(d, 89, 92))]

\* the three validations of read_header, in the order the code runs them;
\* the mutant tests the revision before the signature
HeaderCheckRevisionFirst(h) ==
    IF h.revision # Revision10 THEN GPTError("Bad revision")
    ELSE IF h.signature # EfiPart THEN GPTError("Bad signature")
    ELSE IF h.header_size < 92 THEN GPTError("Bad header size")
    ELSE NoError
HeaderCheck(h) ==
    IF h.signature # EfiPart THEN GPTError("Bad signature")
    ELSE IF h.revision # Revision10 THEN GPTError("Bad revision")
    ELSE IF h.header_size < 92 THEN GPTError("Bad header size")
    ELSE NoError

\* read_header(event): [err, header]
read_header(ev) ==
    LET d == PyHead(ev, HdrSize) IN
    IF Len(d) # HdrSize
    THEN [err |-> StructError, header |-> NoHeader]
    ELSE LET h == UnpackHeader(d)
             e == HeaderCheck(h) IN
         IF e # NoError
         THEN [err |-> e, header |-> NoHeader]
         ELSE [err |-> NoError,
               header |-> [h EXCEPT !.disk_guid = UuidBytesLeStr(h.disk_guid)]]

(* ------------------------ partition entries ---------------------------- *)
\* GPTPartition._make(struct.unpack(GPT_PART_FMT, data) + (i,)), Len(data) = 128;
\* the mutant numbers the entries from 0
UnpackPartitionZeroBased(d, i) ==
    [type |-> SubSeq(d, 1, 16),
     unique |-> SubSeq(d, 17, 32),
     first_lba |-> FromLE(SubSeq(d, 33, 40)),
     last_lba |-> FromLE(SubSeq(d, 41, 48)),
     flags |-> FromLE(SubSeq(d, 49, 56)),
     name |-> SubSeq(d, 57, 128),
     index |-> i - 1]
UnpackPartition(d, i) ==
    [type |-> SubSeq(d, 1, 16),
     unique |-> SubSeq(d, 17, 32),
     first_lba |-> FromLE(SubSeq(d, 33, 40)),
     last_lba |-> FromLE(SubSeq(d, 41, 48)),
     flags |-> FromLE(SubSeq(d, 49, 56)),
     name |-> SubSeq(d, 57, 128),
     index |-> i]

\* Python values carry their class: bytes and str never compare equal
PyBytes(v) == [cls |-> "bytes", val |-> v]
PyStr(v) == [cls |-> "str", val |-> v]
PyEq(a, b) == a.cls = b.cls /\ a.val = b.val

\* part.type == 16 * "\x00"  (bytes on the left, str on the right)
IsUnusedType(t) == PyEq(PyBytes(t), PyStr([k \in 1..16 |-> 0]))

(* --------------------------- "utf-16" codec ---------------------------- *)
IsHighSurrogate(u) == u >= 55296 /\ u <= 56319
IsLowSurrogate(u) == u >= 56320 /\ u <= 57343

\* the 16-bit code units of b in the given byte order (a trailing odd byte
\* is left out here and reported by Utf16Decode)
CodeUnits(b, bigEndian) ==
    [k \in 1..(Len(b) \div 2) |->
        IF bigEndian THEN b[2 * k - 1] * 256 + b[2 * k]
                     ELSE b[2 * k - 1] + 256 * b[2 * k]]

\* strict decoding of code units into code points: [ok, text]
RECURSIVE DecodeUnits(_)
DecodeUnits(u) ==
    IF u = <<>> THEN [ok |-> TRUE, text |-> <<>>]
    ELSE IF IsHighSurrogate(u[1])
    THEN IF Len(u) >= 2 /\ IsLowSurrogate(u[2])
         THEN LET r == DecodeUnits(SubSeq(u, 3, Len(u))) IN
              [ok |-> r.ok,
               text |-> <<65536 + (u[1] - 55296) * 1024 + (u[2] - 56320)>> \o r.text]
         ELSE [ok |-> FALSE, text |-> <<>>]
    ELSE IF IsLowSurrogate(u[1])
    THEN [ok |-> FALSE, text |-> <<>>]
    ELSE LET r == DecodeUnits(Tail(u)) IN
         [ok |-> r.ok, text |-> <<u[1]>> \o r.text]

\* bytes.decode("utf-16") on a little-endian host: a leading FF FE or FE FF
\* is a byte-order mark, which selects the byte order and is not copied
Utf16Decode(b) ==
    LET bom == IF Len(b) >= 2 THEN b[1] + 256 * b[2] ELSE 0
        hasBom == bom = 65279 \/ bom = 65534
        body == IF hasBom THEN SubSeq(b, 3, Len(b)) ELSE b
        r == DecodeUnits(CodeUnits(body, bom = 65534))
    IN  IF Len(body) % 2 # 0 THEN [ok |-> FALSE, text |-> <<>>] ELSE r

\* s.split("\0", 1)[0]
RECURSIVE SplitNul(_)
SplitNul(s) ==
    IF s = <<>> \/ s[1] = 0 THEN <<>> ELSE <<s[1]>> \o SplitNul(Tail(s))

(* ------------------------- read_partitions ----------------------------- *)
\* the default of the lba_size parameter; the mutant is the usual sector size
StandardSectorSize == 4 * PartSize
DefaultLbaSize == 50

\* header.part_entry_start_lba * lba_size
ArrayOffset(h, lba) == h.part_entry_start_lba * lba

\* the tests on the raw slice: "not data", then "len(data) < calcsize";
\* the first mutant has no test for an empty slice, the second one ends the
\* sequence on a short slice instead of raising
ClassifySliceNoEmptyTest(d) ==
    IF Len(d) < PartSize THEN "short" ELSE "full"
ClassifySliceShortEnds(d) ==
    IF Len(d) < PartSize THEN "empty" ELSE "full"
ClassifySlice(d) ==
    IF Len(d) = 0 THEN "empty"
    ELSE IF Len(d) < PartSize THEN "short"
    ELSE "full"

\* part._replace(type=..., unique=..., name=...) after a successful decode
Canonical(part, text) ==
    [part EXCEPT !.type = UuidBytesLeStr(part.type),
                 !.unique = UuidBytesLeStr(part.unique),
                 !.name = SplitNul(text)]

\* one iteration of the for loop with loop value i on the remaining bytes ev:
\* how the iteration ends, the slice it read, the bytes left, what it yields
LoopBody(ev, h, i) ==
    LET d == PyHead(ev, h.part_entry_size)
        left == PyTail(ev, h.part_entry_size)
        kind == ClassifySlice(d)
        res(k, e, y) == [kind |-> k, err |-> e, yields |-> y,
                         data |-> d, rest |-> left]
    IN  IF kind = "empty" THEN res("return", NoError, <<>>)
        ELSE IF kind = "short"
        THEN res("raise", GPTError("Short partition entry"), <<>>)
        ELSE IF Len(d) # PartSize THEN res("raise", StructError, <<>>)
        ELSE LET part == UnpackPartition(d, i) IN
             IF IsUnusedType(part.type) THEN res("continue", NoError, <<>>)
             ELSE LET t == Utf16Decode(part.name) IN
                  IF ~t.ok THEN res("raise", UnicodeDecodeError, <<>>)
                  ELSE res("yield", NoError, <<Canonical(part, t.text)>>)

(* ------------------------------ inputs --------------------------------- *)
\* n as w little-endian bytes
RECURSIVE ToLE(_, _)
ToLE(n, w) == IF w = 0 THEN <<>> ELSE <<n % 256>> \o ToLE(n \div 256, w - 1)

Zeros(n) == [k \in 1..n |-> 0]

\* the 92 header bytes in the layout of GPT_HEADER_FORMAT
MkHeader(sig, rev, hsize, start, num, size) ==
    sig \o rev \o ToLE(hsize, 4) \o ToLE(0, 4) \o Zeros(4) \o
    ToLE(1, 8) \o ToLE(7, 8) \o ToLE(34, 8) \o ToLE(6, 8) \o
    <<1, 2, 3, 4, 5, 6, 7, 8, 9, 10, 11, 12, 13, 14, 15, 16>> \o
    ToLE(start, 8) \o ToLE(num, 4) \o ToLE(size, 4) \o ToLE(0, 4)

\* the EFI system partition type C12A7328-F81F-11D2-BA4B-00A0C93EC93B
EspType == <<40, 115, 42, 193, 31, 248, 210, 17, 186, 75, 0, 160, 201, 62, 201, 59>>

\* a name field: the code units in little-endian order, NUL-padded to 72 bytes
RECURSIVE UnitsLE(_)
UnitsLE(u) ==
    IF u = <<>> THEN <<>>
    ELSE <<u[1] % 256, u[1] \div 256>> \o UnitsLE(Tail(u))
NameField(u) == UnitsLE(u) \o Zeros(72 - 2 * Len(u))

\* one 128-byte entry in the layout of GPT_PARTITION_FORMAT
MkEntry(s, used, u) ==
    (IF used THEN EspType ELSE Zeros(16)) \o
    <<s>> \o Zeros(15) \o ToLE(40 * s, 8) \o ToLE(40 * s + 39, 8) \o
    ToLE(s % 2, 8) \o NameField(u)

PlainName == <<69, 70, 73>>
NameChoices ==
    { PlainName,
      <<>>,
      <<65279, 65>>,             \* starts with FF FE
      <<65534, 65>>,             \* starts with FE FF
      <<55296, 65>>,             \* lone high surrogate
      <<55357, 56832>>,          \* surrogate pair
      <<65, 0, 56320>>,          \* lone low surrogate after the NUL
      [k \in 1..36 |-> 64 + k] } \* no NUL in the field

RECURSIVE MkEntries(_, _, _)
MkEntries(s, used, u) ==
    IF s > MaxSlots THEN <<>>
    ELSE MkEntry(s, used[s], u) \o MkEntries(s + 1, used, u)

\* a TPM EV_EFI_GPT_EVENT payload: header, 8-byte entry count, entries
MkEvent(hc, used, u) ==
    MkHeader(hc.sig, hc.rev, hc.hsize, hc.start, hc.num, hc.size) \o
    ToLE(MaxSlots, 8) \o MkEntries(1, used, u)

\* where the entries start in such a payload
ArrayStart == HdrSize + 8
HeaderChoices ==
    [sig : {EfiPart, <<69, 70, 73, 32, 80, 65, 82, 88>>},
     rev : {Revision10, <<0, 0, 2, 0>>},
     hsize : {91, 92},
     start : {2, 40},
     num : 0..MaxEntries,
     size : {0, 64, 128, 136}]
ValidChoice(hc) == hc.sig = EfiPart /\ hc.rev = Revision10 /\ hc.hsize = 92
Lengths ==
    {0, 91, 92} \cup
    {ArrayStart + 128 * k + d : k \in 0..(MaxSlots - 1), d \in {0, 8, 127}} \cup
    {ArrayStart + 128 * MaxSlots}
\* the lba_size values a caller other than main passes
LbaSizes == {50, 114, 512}

(* --------------------------- state machine ----------------------------- *)
VARIABLES
    event,     \* the buffer given to read_header and read_partitions
    lba_arg,   \* <<l>> when the caller passed lba_size = l, <<>> when not
    pc,        \* "start", "header", "loop", "yielded", "done", "failed"
    header,    \* the GPTHeader returned by read_header
    err,       \* the exception that ended the run
    lba_size,  \* read_partitions: the parameter, 0 before the call
    rest,      \* read_partitions: the local event, the bytes not yet read
    i,         \* read_partitions: the loop variable, 0 before the loop
    data,      \* read_partitions: the slice of the current iteration
    out        \* the partitions yielded so far

vars == <<event, lba_arg, pc, header, err, lba_size, rest, i, data, out>>

Init ==
    /\ \E hc \in HeaderChoices, used \in [1..MaxSlots -> BOOLEAN],
          u \in NameChoices, n \in Lengths :
          /\ ValidChoice(hc) \/ (hc.start = 2 /\ hc.num = 1 /\ hc.size = 128)
          /\ ValidChoice(hc) \/ u = PlainName
          /\ u = PlainName \/ \A s \in 1..MaxSlots : used[s]
          /\ u = PlainName \/ hc.start = 2
          /\ event = PyHead(MkEvent(hc, used, u), n)
    /\ lba_arg = <<>>
    /\ pc = "start"
    /\ header = NoHeader
    /\ err = NoError
    /\ lba_size = 0
    /\ rest = <<>>
    /\ i = 0
    /\ data = <<>>
    /\ out = <<>>

\* main: header = read_header(event)
ReadHeader ==
    /\ pc = "start"
    /\ LET r == read_header(event) IN
         /\ err' = r.err
         /\ header' = r.header
         /\ pc' = IF r.err.type = "none" THEN "header" ELSE "failed"
    /\ UNCHANGED <<event, lba_arg, lba_size, rest, i, data, out>>

\* main: read_partitions(event, header), lba_size left to its default
CallReadPartitionsDefault ==
    /\ pc = "header"
    /\ lba_arg' = <<>>
    /\ lba_size' = DefaultLbaSize
    /\ rest' = PyTail(event, ArrayOffset(header, DefaultLbaSize))
    /\ pc' = "loop"
    /\ UNCHANGED <<event, header, err, i, data, out>>

\* another caller: read_partitions(event, header, l)
CallReadPartitions(l) ==
    /\ pc = "header"
    /\ lba_arg' = <<l>>
    /\ lba_size' = l
    /\ rest' = PyTail(event, ArrayOffset(header, l))
    /\ pc' = "loop"
    /\ UNCHANGED <<event, header, err, i, data, out>>

\* the generator runs one iteration of its for loop
Iterate ==
    /\ pc \in {"loop", "yielded"}
    /\ IF i + 1 > header.num_part_entries
       THEN /\ pc' = "done"
            /\ UNCHANGED <<err, rest, i, data, out>>
       ELSE LET r == LoopBody(rest, header, i + 1) IN
            /\ i' = i + 1
            /\ data' = r.data
            /\ rest' = r.rest
            /\ err' = r.err
            /\ out' = out \o r.yields
            /\ pc' = CASE r.kind = "return" -> "done"
                       [] r.kind = "raise" -> "failed"
                       [] r.kind = "continue" -> "loop"
                       [] r.kind = "yield" -> "yielded"
    /\ UNCHANGED <<event, lba_arg, header, lba_size>>

Next ==
    \/ ReadHeader
    \/ CallReadPartitionsDefault
    \/ \E l \in LbaSizes : CallReadPartitions(l)
    \/ Iterate

Spec == Init /\ [][Next]_vars

(* ------------------------------ claims --------------------------------- *)
\* read_partitions has been called
Called == lba_size # 0
NumEntries == header.num_part_entries
EntrySize == header.part_entry_size
\* the bytes of the buffer that lie in slot k of the partition array
SlotBytes(k) ==
    IF k < 1 THEN <<>> ELSE
    PySlice(event, header.part_entry_start_lba * lba_size + (k - 1) * EntrySize,
                   header.part_entry_start_lba * lba_size + k * EntrySize)
SlotType(k) == PyHead(SlotBytes(k), 16)
SlotUnique(k) == PySlice(SlotBytes(k), 16, 32)
Indices == {out[k].index : k \in 1..Len(out)}
Increasing == \A k \in 2..Len(out) : out[k - 1].index < out[k].index
\* every used slot below j has its record, and every record is that of a slot below j
RecordsBelow(j) ==
    /\ \A k \in 1..Len(out) : out[k].index < j
    /\ \A k \in 1..Len(out) :
          /\ out[k].type = UuidBytesLeStr(SlotType(out[k].index))
          /\ out[k].unique = UuidBytesLeStr(SlotUnique(out[k].index))
    /\ \A s \in 1..(j - 1) : SlotType(s) # Zeros(16) => s \in Indices
    /\ Increasing

\* C1: a slot whose 16-byte type field is all zero is never emitted; when all
\* N slots are complete and K of them have a non-zero type, exactly K records
\* are produced.
C1_UnusedSlotsSkipped ==
    Called =>
       /\ \A k \in 1..Len(out) : SlotType(out[k].index) # Zeros(16)
       /\ (pc = "done" /\ NumEntries >= 1 /\ i = NumEntries
             /\ EntrySize = PartSize /\ Len(SlotBytes(NumEntries)) = PartSize)
          => Len(out) = Cardinality({s \in 1..NumEntries : SlotType(s) # Zeros(16)})

\* C2: when the slice of slot j is non-empty and shorter than 128 bytes, the
\* traversal has yielded the records of slots 1..j-1 in order and has failed
\* with "Short partition entry"; there is no record for slot j or a later one.
C2_ShortEntryAborts ==
    (Called /\ i >= 1 /\ Len(data) >= 1 /\ Len(data) < 128) =>
       /\ pc = "failed"
       /\ err = GPTError("Short partition entry")
       /\ RecordsBelow(i)
C2_Witness ==
    /\ pc = "failed" /\ err = GPTError("Short partition entry")
    /\ i = 3 /\ Len(data) = 127 /\ Len(out) = 2

\* C3: read_header on a buffer shorter than 92 bytes fails with a GPTError
\* that is the underrun error, not one of the three field validation errors.
C3_ShortHeaderIsUnderrun ==
    (pc # "start" /\ Len(event) < 92) =>
       /\ pc = "failed"
       /\ err.type = "GPTError"
       /\ err.msg \notin {"Bad signature", "Bad revision", "Bad header size"}

\* C4: when part_entry_size exceeds 128 and the whole slice of slot i is
\* available, the entry is parsed from the leading 128 bytes and the
\* traversal does not fail because of the trailing bytes.
C4_TrailingBytesIgnored ==
    (Called /\ i >= 1 /\ EntrySize > 128 /\ Len(data) = EntrySize) =>
       /\ err.type # "struct.error"
       /\ pc = "yielded" =>
             out[Len(out)].type = UuidBytesLeStr(SubSeq(data, 1, 16))

\* C5: on a buffer of at least 92 bytes the first failing check, in the order
\* signature, revision, header_size, decides the error read_header reports.
C5_FirstFailingCheck ==
    (pc # "start" /\ Len(event) >= 92) =>
       LET sigBad == SubSeq(event, 1, 8) # EfiPart
           revBad == SubSeq(event, 9, 12) # Revision10
           sizeBad == FromLE(SubSeq(event, 13, 16)) < 92
       IN  /\ sigBad => pc = "failed" /\ err = GPTError("Bad signature")
           /\ (~sigBad /\ revBad) =>
                 pc = "failed" /\ err = GPTError("Bad revision")
           /\ (~sigBad /\ ~revBad /\ sizeBad) =>
                 pc = "failed" /\ err = GPTError("Bad header size")
           /\ (~sigBad /\ ~revBad /\ ~sizeBad) =>
                 ~(pc = "failed" /\ i = 0)
C5_Witness ==
    /\ pc = "failed" /\ err = GPTError("Bad signature")
    /\ SubSeq(event, 9, 12) # Revision10
    /\ FromLE(SubSeq(event, 13, 16)) < 92

\* C6: the index of every yielded partition is the 1-based position of its
\* slot (the loop value), so the indices are strictly increasing and lie in
\* 1..num_part_entries.
C6_IndexIsSlotPosition ==
    /\ \A k \in 1..Len(out) :
          /\ out[k].index \in 1..NumEntries
          /\ out[k].index <= i
          /\ out[k].unique = UuidBytesLeStr(SlotUnique(out[k].index))
    /\ Increasing
    /\ pc = "yielded" => out[Len(out)].index = i
C6_Witness ==
    /\ pc = "yielded" /\ Len(out) = 2 /\ out[2].index = 2
    /\ lba_size = 114

\* C7: when the slice of slot i <= num_part_entries is empty the sequence has
\* ended normally: no error, and the records are those of slots 1..i-1.
C7_EmptySliceEnds ==
    (Called /\ i >= 1 /\ i <= NumEntries /\ Len(data) = 0) =>
       /\ pc = "done"
       /\ err = NoError
       /\ RecordsBelow(i)
C7_Witness ==
    /\ pc = "done" /\ err = NoError /\ Len(data) = 0
    /\ i = 3 /\ i <= NumEntries /\ Len(out) = 2 /\ EntrySize = 128

\* the text of the little-endian code units of b before the first zero unit
RECURSIVE UnitsBeforeNul(_)
UnitsBeforeNul(u) ==
    IF u = <<>> \/ u[1] = 0 THEN <<>> ELSE <<u[1]>> \o UnitsBeforeNul(Tail(u))
LittleEndianName(b) == DecodeUnits(UnitsBeforeNul(CodeUnits(b, FALSE))).text

\* C8: the name of an emitted partition is the text of the little-endian code
\* units of its 72-byte field before the first zero unit, whatever the first
\* unit is (0xFEFF and 0xFFFE included).
C8_NameIsLittleEndian ==
    pc = "yielded" => out[Len(out)].name = LittleEndianName(SubSeq(data, 57, 128))

\* C9 as stated: the slice of slot i starts at part_entry_start_lba *
\* sector_size + (i-1) * part_entry_size, and sector_size is always a value
\* the caller supplied.
C9_SectorSizeAlwaysSupplied ==
    (Called /\ i >= 1) =>
       /\ lba_arg # <<>>
       /\ data = PySlice(event,
             header.part_entry_start_lba * lba_arg[1] + (i - 1) * EntrySize,
             header.part_entry_start_lba * lba_arg[1] + i * EntrySize)

\* C9 amended: the slice of slot i is the bytes the buffer holds from
\* part_entry_start_lba * sector_size + (i-1) * part_entry_size, at most
\* part_entry_size of them, where sector_size is the caller's value, or 50
\* when the caller passed none.
C9_SliceOfSlot ==
    (Called /\ i >= 1) =>
       LET sector == IF lba_arg = <<>> THEN 50 ELSE lba_arg[1]
           base == header.part_entry_start_lba * sector
       IN  data = PySlice(event, base + (i - 1) * EntrySize, base + i * EntrySize)
C9_Witness ==
    /\ lba_arg = <<>> /\ Called /\ i = 2 /\ Len(data) = 128
    /\ data = PySlice(event, 228, 356)

\* C10: when the array offset is at or beyond the end of the buffer, or
\* part_entry_size is 0, the traversal yields nothing and raises nothing,
\* whatever num_part_entries is.
C10_OutsideBufferIsEmpty ==
    (Called /\ (header.part_entry_start_lba * lba_size >= Len(event)
                  \/ EntrySize = 0)) =>
       /\ out = <<>>
       /\ err = NoError
       /\ pc \in {"loop", "done"}
       /\ pc = "loop" => i = 0
C10_Witness ==
    /\ pc = "done" /\ i = 1 /\ out = <<>>
    /\ header.part_entry_start_lba * lba_size >= Len(event)
    /\ EntrySize = 128 /\ NumEntries = MaxEntries /\ Len(event) > ArrayStart + 128
====
